---- MODULE Spec2Model ----
(***************************************************************************)
(* Model of the Bitcoin price analysis script: the halving calendar and    *)
(* the two feature projections of DataHelper (data_helper.py), the RSI of  *)
(* TechnicalAnalysis (technical_analysis.py) and the headline trajectory   *)
(* and enrichment steps of main.py.                                        *)
(*                                                                         *)
(* Conventions.                                                            *)
(*  - A table (pandas DataFrame) is a sequence of rows; row i of the model *)
(*    is the row with positional label i-1 in pandas.                      *)
(*  - A number is a pair <<n, d>>: the rational n/d when d > 0, NaN when   *)
(*    <<0, 0>>, +inf when <<1, 0>>, -inf when <<-1, 0>>.  Arithmetic is    *)
(*    exact; the rounding of binary floating point is not modelled.        *)
(*  - A timestamp is a number of clock ticks since 2000-01-01 00:00, with  *)
(*    TicksPerDay ticks in a day.                                          *)
(***************************************************************************)
EXTENDS Integers, Sequences, FiniteSets, TLC

VARIABLES btc_data, pc, result

vars == <<btc_data, pc, result>>

(***************************************************************************)
(* Bounds of the model.                                                    *)
(***************************************************************************)
TicksPerDay == 2
CalWindow == 2
MaxBars == 3
MaxDays == 3
MaxRsiBars == 16
MaxMoves == 2
MaxEnrichBars == 32
MaxHeadlineBars == 2

(***************************************************************************)
(* Numbers: float values as exact rationals with NaN and the infinities.   *)
(***************************************************************************)
Abs(n) == IF n < 0 THEN -n ELSE n

Sign(n) == IF n < 0 THEN -1 ELSE IF n > 0 THEN 1 ELSE 0

RECURSIVE GCD(_, _)
GCD(a, b) == IF b = 0 THEN Abs(a) ELSE GCD(b, a % b)

NaN == <<0, 0>>

PosInf == <<1, 0>>

Norm(n, d) ==
    IF d = 0 THEN <<Sign(n), 0>>
    ELSE LET g == GCD(Abs(n), Abs(d))
         IN  <<Sign(d) * (n \div g), Abs(d) \div g>>

Num(n) == <<n, 1>>

IsNaN(x) == x = NaN

IsFinite(x) == x[2] > 0

RNeg(x) == <<-x[1], x[2]>>

RAdd(x, y) ==
    IF IsNaN(x) \/ IsNaN(y) THEN NaN
    ELSE IF ~IsFinite(x) /\ ~IsFinite(y) THEN (IF x = y THEN x ELSE NaN)
    ELSE IF ~IsFinite(x) THEN x
    ELSE IF ~IsFinite(y) THEN y
    ELSE LET g == GCD(x[2], y[2])
         IN  Norm(x[1] * (y[2] \div g) + y[1] * (x[2] \div g), (x[2] \div g) * y[2])

RSub(x, y) == RAdd(x, RNeg(y))

RMul(x, y) ==
    IF IsNaN(x) \/ IsNaN(y) THEN NaN
    ELSE IF ~IsFinite(x) \/ ~IsFinite(y) THEN <<Sign(x[1]) * Sign(y[1]), 0>>
    ELSE LET g1 == GCD(Abs(x[1]), y[2])
             g2 == GCD(Abs(y[1]), x[2])
         IN  Norm((x[1] \div g1) * (y[1] \div g2), (x[2] \div g2) * (y[2] \div g1))

RInv(x) ==
    IF IsNaN(x) THEN NaN
    ELSE IF ~IsFinite(x) THEN Num(0)
    ELSE IF x[1] = 0 THEN PosInf
    ELSE <<Sign(x[1]) * x[2], Abs(x[1])>>

RDiv(x, y) ==
    IF IsNaN(x) \/ IsNaN(y) THEN NaN
    ELSE IF IsFinite(y) /\ y[1] = 0 THEN <<Sign(x[1]), 0>>
    ELSE RMul(x, RInv(y))

RLess(x, y) ==
    /\ ~IsNaN(x)
    /\ ~IsNaN(y)
    /\ x # y
    /\ IF IsFinite(x) /\ IsFinite(y) THEN x[1] * y[2] < y[1] * x[2]
       ELSE IF ~IsFinite(x) THEN x[1] < 0
       ELSE y[1] > 0

RLeq(x, y) == ~IsNaN(x) /\ ~IsNaN(y) /\ (x = y \/ RLess(x, y))

RECURSIVE SumSeq(_)
SumSeq(s) == IF Len(s) = 0 THEN Num(0) ELSE RAdd(SumSeq(SubSeq(s, 1, Len(s) - 1)), s[Len(s)])

Mean(s) == IF Len(s) = 0 THEN NaN ELSE RDiv(SumSeq(s), Num(Len(s)))

(***************************************************************************)
(* Calendar dates: datetime(y, m, d), timedelta(days), .year and .days.    *)
(***************************************************************************)
IsLeap(y) == (y % 4 = 0 /\ y % 100 # 0) \/ y % 400 = 0

DaysBeforeYear(y) == 365 * (y - 2000) + Cardinality({z \in 2000..(y - 1) : IsLeap(z)})

MonthLength(y, m) ==
    IF m = 2 THEN (IF IsLeap(y) THEN 29 ELSE 28)
    ELSE IF m \in {4, 6, 9, 11} THEN 30 ELSE 31

RECURSIVE DaysBeforeMonth(_, _)
DaysBeforeMonth(y, m) == IF m = 1 THEN 0 ELSE DaysBeforeMonth(y, m - 1) + MonthLength(y, m - 1)

datetime(y, m, d) == (DaysBeforeYear(y) + DaysBeforeMonth(y, m) + (d - 1)) * TicksPerDay

timedelta(days) == days * TicksPerDay

YearOf(t) ==
    CHOOSE y \in 2000..2040 :
        DaysBeforeYear(y) * TicksPerDay <= t /\ t < DaysBeforeYear(y + 1) * TicksPerDay

DaysOf(delta) == delta \div TicksPerDay

(***************************************************************************)
(* Halving calendar (DataHelper).                                          *)
(***************************************************************************)
NotFound == [kind |-> "error", error |-> "ValueError: No halving date found for the year"]

halving_dates ==
    <<datetime(2012, 11, 28), datetime(2016, 7, 9), datetime(2020, 5, 11),
      datetime(2024, 5, 12), datetime(2028, 5, 12)>>

RECURSIVE FirstWithYear(_, _, _)
FirstWithYear(dates, i, year) ==
    IF i > Len(dates) THEN NotFound
    ELSE IF YearOf(dates[i]) = year THEN [kind |-> "date", date |-> dates[i]]
    ELSE FirstWithYear(dates, i + 1, year)

\* Variant: a year without a reference date falls back to the first date of the
\* table instead of raising.
get_halving_date_or_first(year) ==
    LET found == FirstWithYear(halving_dates, 1, year)
    IN  IF found = NotFound THEN [kind |-> "date", date |-> halving_dates[1]] ELSE found

get_halving_date(year) == FirstWithYear(halving_dates, 1, year)

MaxOf(S) == CHOOSE x \in S : \A y \in S : y <= x

\* Variant: a reference date equal to current_date counts as past.
days_since_last_halving_inclusive(current_date) ==
    LET past_halvings == {halving_dates[i] : i \in {j \in 1..Len(halving_dates) :
                                                      halving_dates[j] <= current_date}}
    IN  IF past_halvings = {} THEN 0
        ELSE DaysOf(current_date - MaxOf(past_halvings))

days_since_last_halving(current_date) ==
    LET past_halvings == {halving_dates[i] : i \in {j \in 1..Len(halving_dates) :
                                                      halving_dates[j] < current_date}}
    IN  IF past_halvings = {} THEN 0
        ELSE DaysOf(current_date - MaxOf(past_halvings))

(***************************************************************************)
(* pandas: Series as functions from row labels to numbers, date_range and  *)
(* DataFrame column assignment.                                            *)
(***************************************************************************)
Column(df, name) == [i \in 1..Len(df) |-> Num(df[i][name])]

pct_change(s) ==
    [i \in DOMAIN s |-> IF i = 1 THEN NaN ELSE RDiv(RSub(s[i], s[i - 1]), s[i - 1])]

dropna(s) == [i \in {j \in DOMAIN s : ~IsNaN(s[j])} |-> s[i]]

RECURSIVE SeriesMaxFrom(_, _)
SeriesMaxFrom(s, n) ==
    IF n = 0 THEN NaN
    ELSE LET m == SeriesMaxFrom(s, n - 1)
         IN  IF IsNaN(m) \/ RLess(m, s[n]) THEN s[n] ELSE m

SeriesMax(s) == SeriesMaxFrom(s, Cardinality(DOMAIN s))

BoolIndex(s, mask) == [i \in {j \in DOMAIN s : mask[j]} |-> s[i]]

RECURSIVE SeriesSum(_, _)
SeriesSum(s, labels) ==
    IF labels = {} THEN Num(0)
    ELSE LET i == MaxOf(labels)
         IN  RAdd(SeriesSum(s, labels \ {i}), s[i])

SeriesMean(s) ==
    IF DOMAIN s = {} THEN NaN
    ELSE RDiv(SeriesSum(s, DOMAIN s), Num(Cardinality(DOMAIN s)))

LibError(msg) == [kind |-> "error", error |-> msg]

date_range(start, periods, negative_periods) ==
    IF periods < 0
    THEN (IF negative_periods = "raise"
          THEN LibError("date_range: negative periods")
          ELSE [kind |-> "index", labels |-> << >>])
    ELSE [kind |-> "index",
          labels |-> [k \in 1..periods |-> <<"date", start + timedelta(k - 1)>>]]

RangeIndex(n) == [k \in 1..n |-> <<"pos", k - 1>>]

SetItem(frame, name, values) ==
    LET index == IF Len(frame.index) = 0 /\ Len(values) > 0
                 THEN RangeIndex(Len(values))
                 ELSE frame.index
    IN  IF Len(values) # Len(index)
        THEN LibError("ValueError: Length of values does not match length of index")
        ELSE [kind |-> "table", index |-> index,
              columns |-> [f \in (DOMAIN frame.columns) \cup {name} |->
                              IF f = name THEN values ELSE frame.columns[f]]]

(***************************************************************************)
(* Projection engine (DataHelper).                                         *)
(***************************************************************************)
\* Variant: a bar whose close is exactly 5% under the all-time high is in the band.
at_high_pct_changes_inclusive(data) ==
    LET close == Column(data, "close")
        pct_changes == dropna(pct_change(close))
        all_time_high == SeriesMax(close)
        threshold == RMul(all_time_high, <<1, 20>>)
        mask == [i \in DOMAIN close |-> RLeq(RSub(all_time_high, threshold), close[i])]
    IN  BoolIndex(pct_changes, mask)

at_high_pct_changes(data) ==
    LET close == Column(data, "close")
        pct_changes == dropna(pct_change(close))
        all_time_high == SeriesMax(close)
        threshold == RMul(all_time_high, <<1, 20>>)
        mask == [i \in DOMAIN close |-> RLess(RSub(all_time_high, threshold), close[i])]
    IN  BoolIndex(pct_changes, mask)

avg_pct_change_at_high(data) == SeriesMean(at_high_pct_changes(data))

RECURSIVE future_values(_, _, _)
future_values(seed, avg, days) ==
    IF days <= 1 THEN <<seed>>
    ELSE LET prev == future_values(seed, avg, days - 1)
         IN  Append(prev, RMul(prev[Len(prev)], RAdd(Num(1), avg)))

RECURSIVE FillFeatures(_, _, _, _, _, _)
FillFeatures(frame, features, k, last_values, avg, days) ==
    IF k > Len(features) \/ frame.kind = "error" THEN frame
    ELSE FillFeatures(
             SetItem(frame, features[k],
                     future_values(Num(last_values[features[k]]), avg, days)),
             features, k + 1, last_values, avg, days)

generate_future_features(data, features, days, negative_periods) ==
    IF Len(data) = 0 THEN LibError("IndexError: single positional indexer is out-of-bounds")
    ELSE LET last_values == data[Len(data)]
             avg == avg_pct_change_at_high(data)
             index == date_range(data[Len(data)].timestamp + timedelta(1), days,
                                 negative_periods)
         IN  IF index.kind = "error" THEN index
             ELSE FillFeatures([kind |-> "table", index |-> index.labels,
                                columns |-> [f \in {} |-> << >>]],
                               features, 1, last_values, avg, days)

\* Variant: the halving day itself is counted in the horizon.
generate_features_through_halving(data, features, negative_periods) ==
    IF Len(data) = 0 THEN LibError("IndexError: single positional indexer is out-of-bounds")
    ELSE LET last_known_date == data[Len(data)].timestamp
             last_values == data[Len(data)]
             halving_date == get_halving_date(2024)
         IN  IF halving_date.kind = "error" THEN halving_date
             ELSE LET days_to_halving == DaysOf(halving_date.date - last_known_date) + 1
                      avg == avg_pct_change_at_high(data)
                      index == date_range(last_known_date + timedelta(1), days_to_halving,
                                          negative_periods)
                  IN  IF index.kind = "error" THEN index
                      ELSE FillFeatures([kind |-> "table", index |-> index.labels,
                                         columns |-> [f \in {} |-> << >>]],
                                        features, 1, last_values, avg, days_to_halving)

generate_features_to_halving(data, features, negative_periods) ==
    IF Len(data) = 0 THEN LibError("IndexError: single positional indexer is out-of-bounds")
    ELSE LET last_known_date == data[Len(data)].timestamp
             last_values == data[Len(data)]
             halving_date == get_halving_date(2024)
         IN  IF halving_date.kind = "error" THEN halving_date
             ELSE LET days_to_halving == DaysOf(halving_date.date - last_known_date)
                      avg == avg_pct_change_at_high(data)
                      index == date_range(last_known_date + timedelta(1), days_to_halving,
                                          negative_periods)
                  IN  IF index.kind = "error" THEN index
                      ELSE FillFeatures([kind |-> "table", index |-> index.labels,
                                         columns |-> [f \in {} |-> << >>]],
                                        features, 1, last_values, avg, days_to_halving)

(***************************************************************************)
(* Historical tables the operations are run on.                            *)
(***************************************************************************)
Bar(ts, open, high, low, close) ==
    [timestamp |-> ts, open |-> open, high |-> high, low |-> low, close |-> close]

CloseValues == {10, 19, 20}

FeatureLists == {<< >>, <<"close">>, <<"close", "volatility">>}

DailyBars(closes, last_ts) ==
    [i \in 1..Len(closes) |->
        Bar(last_ts - timedelta(Len(closes) - i), closes[i], closes[i] + 1,
            closes[i] - 1, closes[i])]

CloseSeqs(maxLen) == UNION {[1..n -> CloseValues] : n \in 0..maxLen}

LastTimestamps ==
    {datetime(2024, 5, 12) + k : k \in (-(MaxDays * TicksPerDay))..(TicksPerDay + 1)}

AddVolatility(df) == [i \in 1..Len(df) |-> df[i] @@ [volatility |-> df[i].high - df[i].low]]

AddDaysSinceHalving(df) ==
    [i \in 1..Len(df) |->
        df[i] @@ [days_since_halving |-> days_since_last_halving(df[i].timestamp)]]

ProjectionInputs ==
    {AddVolatility(DailyBars(c, t)) : c \in CloseSeqs(MaxBars), t \in LastTimestamps}

NoResult == [op |-> "none"]

LookupYears == 2010..2030

InitProjection ==
    /\ btc_data \in ProjectionInputs
    /\ pc = "ready"
    /\ result = NoResult

CallFutureFeatures ==
    /\ pc = "ready"
    /\ \E features \in FeatureLists, days \in (-1)..MaxDays,
          negative_periods \in {"raise", "empty"} :
          result' = [op |-> "generate_future_features", features |-> features,
                     days |-> days,
                     out |-> generate_future_features(btc_data, features, days,
                                                      negative_periods)]
    /\ pc' = "returned"
    /\ UNCHANGED btc_data

CallFeaturesToHalving ==
    /\ pc = "ready"
    /\ \E features \in FeatureLists, negative_periods \in {"raise", "empty"} :
          result' = [op |-> "generate_features_to_halving", features |-> features,
                     out |-> generate_features_to_halving(btc_data, features,
                                                          negative_periods)]
    /\ pc' = "returned"
    /\ UNCHANGED btc_data

LookupHalvingDate ==
    /\ pc = "ready"
    /\ \E year \in LookupYears :
          result' = [op |-> "get_halving_date", year |-> year, out |-> get_halving_date(year)]
    /\ pc' = "returned"
    /\ UNCHANGED btc_data

NextProjection == CallFutureFeatures \/ CallFeaturesToHalving \/ LookupHalvingDate

SpecProjection == InitProjection /\ [][NextProjection]_vars

(***************************************************************************)
(* Properties of the projection engine.                                    *)
(***************************************************************************)
IsCall(op) == result.op = op /\ Len(btc_data) >= 1

IsProjectionCall ==
    IsCall("generate_future_features") \/ IsCall("generate_features_to_halving")

LastTimestamp == btc_data[Len(btc_data)].timestamp

DaysToHalving == DaysOf(datetime(2024, 5, 12) - LastTimestamp)

Horizon == IF result.op = "generate_future_features" THEN result.days ELSE DaysToHalving

Closes == [i \in 1..Len(btc_data) |-> btc_data[i].close]

AllTimeHigh == MaxOf({Closes[i] : i \in 1..Len(btc_data)})

PctChangeInto(j) == Norm(Closes[j] - Closes[j - 1], Closes[j - 1])

MeanPctChangeInto(bars) ==
    IF bars = {} THEN NaN
    ELSE LET total == SeriesSum([j \in bars |-> PctChangeInto(j)], bars)
         IN  RDiv(total, Num(Cardinality(bars)))

\* The changes the code averages: those ending at a bar strictly inside the band.
EndingStrictlyInBand == {j \in 2..Len(btc_data) : 20 * Closes[j] > 19 * AllTimeHigh}

\* The changes the claim names: those starting at a bar with close >= 0.95 * ATH.
StartingInBand == {j \in 2..Len(btc_data) : 20 * Closes[j - 1] >= 19 * AllTimeHigh}

IsGeometric(values, seed, avg) ==
    /\ values[1] = seed
    /\ \A k \in 2..Len(values) : values[k] = RMul(values[k - 1], RAdd(Num(1), avg))

DailyIndexFrom(index, first) ==
    \A k \in 1..Len(index) : index[k] = <<"date", first + (k - 1) * TicksPerDay>>

\* C1: for every historical series, feature list and horizon days,
\* generate_future_features returns a table of exactly days rows, indexed by
\* consecutive daily dates from the day after the last historical timestamp;
\* each column starts at the feature's last historical value and every later
\* value is the previous one times (1 + avg_pct_change_at_high).
C1_FutureFeaturesShape ==
    (IsCall("generate_future_features") /\ result.days >= 0) =>
        /\ result.out.kind = "table"
        /\ Len(result.out.index) = result.days
        /\ DailyIndexFrom(result.out.index, LastTimestamp + TicksPerDay)
        /\ \A k \in 1..Len(result.features) :
              LET f == result.features[k]
              IN  /\ f \in DOMAIN result.out.columns
                  /\ Len(result.out.columns[f]) = result.days
                  /\ IsGeometric(result.out.columns[f], Num(btc_data[Len(btc_data)][f]),
                                 MeanPctChangeInto(EndingStrictlyInBand))

HasNaN(table) ==
    \E f \in DOMAIN table.columns :
        \E k \in 1..Len(table.columns[f]) : IsNaN(table.columns[f][k])

\* C2: whenever no percentage change is selected by the near-all-time-high
\* band, generate_future_features and generate_features_to_halving fail with an
\* error and return no table with undefined (NaN) values.  Stated for the calls
\* whose output uses the average: a horizon of two days or more and at least
\* one feature.
C2_EmptyBandFails ==
    (/\ IsProjectionCall
     /\ EndingStrictlyInBand = {}
     /\ Horizon >= 2
     /\ result.features # << >>) =>
        result.out.kind = "error"

\* C3: when the last historical timestamp is at or past the 2024 halving date
\* (day count zero or negative), generate_features_to_halving raises no error
\* and yields a zero-length projection.
C3_PastHalvingEmpty ==
    (IsCall("generate_features_to_halving") /\ DaysToHalving <= 0) =>
        /\ result.out.kind = "table"
        /\ Len(result.out.index) = 0

\* C9: whenever the day count D from the last historical timestamp to the 2024
\* halving date is at least 1, generate_features_to_halving returns the same
\* table (dates and values) as generate_future_features called with days = D.
C9_HalvingEqualsFixedHorizon ==
    (IsCall("generate_features_to_halving") /\ DaysToHalving >= 1) =>
        result.out = generate_future_features(btc_data, result.features, DaysToHalving,
                                              "raise")

C9_Witness ==
    /\ IsCall("generate_features_to_halving")
    /\ DaysToHalving >= 2
    /\ Len(btc_data) >= 2
    /\ result.features = <<"close", "volatility">>
    /\ result.out.kind = "table"
    /\ Len(result.out.index) = DaysToHalving
    /\ ~HasNaN(result.out)
    /\ result.out.columns["close"][2] # result.out.columns["close"][1]

UsesAverage(avg) ==
    (/\ IsProjectionCall
     /\ result.out.kind = "table"
     /\ "close" \in DOMAIN result.out.columns
     /\ Len(result.out.columns["close"]) >= 2) =>
        result.out.columns["close"][2] =
            RMul(result.out.columns["close"][1], RAdd(Num(1), avg))

\* C10 (as claimed): the average used by both projection strategies is the mean
\* of the percentage changes of close whose starting bar has close >= 0.95 times
\* the all-time-high close.
C10_AverageOverStartingBars ==
    UsesAverage(MeanPctChangeInto(StartingInBand))

\* C10 (amended): the average used by both projection strategies is the mean of
\* the percentage changes of close whose ending bar (the later bar of the pair)
\* has close strictly greater than 0.95 times the all-time-high close.
C10_AverageOverEndingBars ==
    UsesAverage(MeanPctChangeInto(EndingStrictlyInBand))

C10_Witness ==
    /\ IsProjectionCall
    /\ result.out.kind = "table"
    /\ "close" \in DOMAIN result.out.columns
    /\ Len(result.out.columns["close"]) >= 2
    /\ Cardinality(EndingStrictlyInBand) >= 2
    /\ \E j \in 1..Len(btc_data) : 20 * Closes[j] = 19 * AllTimeHigh
    /\ ~IsNaN(result.out.columns["close"][2])

(***************************************************************************)
(* Loading the historical table one bar at a time (fetch_historical_data). *)
(***************************************************************************)
FirstBar == Bar(datetime(2024, 1, 1), 10, 11, 9, 10)

Moves(df) == Cardinality({i \in 2..Len(df) : df[i].close # df[i - 1].close})

NextBar(df, move) ==
    LET last == df[Len(df)]
    IN  Bar(last.timestamp + timedelta(1), last.close + move, last.close + move + 1,
            last.close + move - 1, last.close + move)

InitFetch ==
    /\ btc_data = <<FirstBar>>
    /\ pc = "fetch"
    /\ result = NoResult

FetchRow(maxBars, maxMoves, moves) ==
    /\ pc = "fetch"
    /\ Len(btc_data) < maxBars
    /\ \E move \in moves :
          /\ move # 0 => Moves(btc_data) < maxMoves
          /\ btc_data' = Append(btc_data, NextBar(btc_data, move))
    /\ UNCHANGED <<pc, result>>

(***************************************************************************)
(* Relative strength index (TechnicalAnalysis).                            *)
(***************************************************************************)
diff(s) == [i \in DOMAIN s |-> IF i = 1 THEN NaN ELSE RSub(s[i], s[i - 1])]

rolling_mean(s, window) ==
    [i \in DOMAIN s |->
        IF i < window \/ (\E j \in (i - window + 1)..i : IsNaN(s[j])) THEN NaN
        ELSE Mean(SubSeq(s, i - window + 1, i))]

fillna(s, value) == [i \in DOMAIN s |-> IF IsNaN(s[i]) THEN value ELSE s[i]]

\* Variant: an infinite relative strength (no loss in the window) is also
\* replaced by the neutral value.
relative_strength_idx_neutral_without_loss(df, n) ==
    LET delta == diff(Column(df, "close"))
        gain == [i \in DOMAIN delta |-> IF RLess(Num(0), delta[i]) THEN delta[i] ELSE Num(0)]
        loss == [i \in DOMAIN delta |->
                    IF RLess(delta[i], Num(0)) THEN RNeg(delta[i]) ELSE Num(0)]
        avg_gain == rolling_mean(gain, n)
        avg_loss == rolling_mean(loss, n)
        rs == [i \in DOMAIN delta |-> RDiv(avg_gain[i], avg_loss[i])]
        rsi == [i \in DOMAIN delta |->
                   IF IsFinite(rs[i])
                   THEN RSub(Num(100), RDiv(Num(100), RAdd(Num(1), rs[i])))
                   ELSE NaN]
    IN  fillna(rsi, Num(50))

relative_strength_idx(df, n) ==
    LET delta == diff(Column(df, "close"))
        gain == [i \in DOMAIN delta |-> IF RLess(Num(0), delta[i]) THEN delta[i] ELSE Num(0)]
        loss == [i \in DOMAIN delta |->
                    IF RLess(delta[i], Num(0)) THEN RNeg(delta[i]) ELSE Num(0)]
        avg_gain == rolling_mean(gain, n)
        avg_loss == rolling_mean(loss, n)
        rs == [i \in DOMAIN delta |-> RDiv(avg_gain[i], avg_loss[i])]
        rsi == [i \in DOMAIN delta |->
                   RSub(Num(100), RDiv(Num(100), RAdd(Num(1), rs[i])))]
    IN  fillna(rsi, Num(50))

RsiPeriod == 14

FetchRsiRow == FetchRow(MaxRsiBars, MaxMoves, {-1, 0, 2})

ComputeRsi ==
    /\ pc = "fetch"
    /\ result' = [op |-> "relative_strength_idx",
                  out |-> relative_strength_idx(btc_data, RsiPeriod)]
    /\ pc' = "rsi"
    /\ UNCHANGED btc_data

NextRsi == FetchRsiRow \/ ComputeRsi

SpecRsi == InitFetch /\ [][NextRsi]_vars

(***************************************************************************)
(* Properties of the relative strength index.                              *)
(***************************************************************************)
\* Sum over the 14 bars ending at bar i of the positive close-to-close deltas
\* (sign = 1) or of the magnitudes of the negative ones (sign = -1); the first
\* bar of the table has no delta.
RECURSIVE WindowSum(_, _, _)
WindowSum(i, j, sign) ==
    IF j > i THEN 0
    ELSE (IF j >= 2 /\ sign * (btc_data[j].close - btc_data[j - 1].close) > 0
          THEN sign * (btc_data[j].close - btc_data[j - 1].close)
          ELSE 0) + WindowSum(i, j + 1, sign)

GainSum(i) == WindowSum(i, i - 13, 1)

LossSum(i) == WindowSum(i, i - 13, -1)

RsiFormula(i) == Norm(100 * GainSum(i), GainSum(i) + LossSum(i))

\* C4 (as claimed): RSI is exactly 50 at each of the first 14 bars and at every
\* bar whose trailing 14-bar average loss is 0; at every other bar it is
\* 100 - 100/(1 + avg_gain/avg_loss).
C4_NeutralWhenNoLoss ==
    result.op = "relative_strength_idx" =>
        \A i \in 1..Len(btc_data) :
            result.out[i] = IF i <= 14 \/ LossSum(i) = 0 THEN Num(50) ELSE RsiFormula(i)

\* C4 (amended): RSI is exactly 50 at each of the first 13 bars (incomplete
\* window) and at every later bar whose trailing 14 bars hold neither a gain
\* nor a loss; it is 100 where the average loss is 0 and the average gain is
\* positive; at every other bar it is 100 - 100/(1 + avg_gain/avg_loss), the
\* averages being over the trailing 14 bars with the first bar of the table
\* counted as zero gain and zero loss.
C4_NeutralOnlyWhenUndefined ==
    result.op = "relative_strength_idx" =>
        \A i \in 1..Len(btc_data) :
            result.out[i] =
                IF i <= 13 THEN Num(50)
                ELSE IF GainSum(i) = 0 /\ LossSum(i) = 0 THEN Num(50)
                ELSE IF LossSum(i) = 0 THEN Num(100)
                ELSE RsiFormula(i)

C4_Witness ==
    /\ result.op = "relative_strength_idx"
    /\ Len(btc_data) >= 16
    /\ GainSum(15) > 0 /\ LossSum(15) > 0 /\ GainSum(15) # LossSum(15)
    /\ GainSum(16) > 0 /\ LossSum(16) = 0
    /\ result.out[13] = Num(50)
    /\ result.out[14] # Num(50)
    /\ result.out[15] = RsiFormula(15)
    /\ result.out[16] = Num(100)

(***************************************************************************)
(* main.py: preparation, technical analysis and the final dropna.          *)
(***************************************************************************)
PrepareData ==
    /\ pc = "fetch"
    /\ btc_data' = AddDaysSinceHalving(AddVolatility(btc_data))
    /\ pc' = "prepared"
    /\ result' = [op |-> "prepare", rows |-> Len(btc_data)]

\* Variant: the lag is defined one row early.
shift_short(s, periods) == [i \in DOMAIN s |-> IF i < periods THEN NaN ELSE s[i - periods + 1]]

shift(s, periods) == [i \in DOMAIN s |-> IF i <= periods THEN NaN ELSE s[i - periods]]

RECURSIVE IntSum(_, _, _, _)
IntSum(df, name, from, to) ==
    IF from > to THEN 0 ELSE df[to][name] + IntSum(df, name, from, to - 1)

RECURSIVE IntSumSq(_, _, _, _)
IntSumSq(df, name, from, to) ==
    IF from > to THEN 0 ELSE df[to][name] * df[to][name] + IntSumSq(df, name, from, to - 1)

\* The sample variance (ddof = 1) of the window: the value recorded for a
\* standard deviation is its square, the root having no exact representation.
rolling_std(df, name, window) ==
    [i \in 1..Len(df) |->
        IF i < window THEN NaN
        ELSE LET sum == IntSum(df, name, i - window + 1, i)
                 sumsq == IntSumSq(df, name, i - window + 1, i)
             IN  Norm(window * sumsq - sum * sum, window * (window - 1))]

Lags == {1, 3, 7, 14, 30}

Windows == {7, 14, 30}

technical_analysis(df) ==
    LET close == Column(df, "close")
        open_ma_7 == rolling_mean(Column(df, "open"), 7)
        rsi == relative_strength_idx(df, RsiPeriod)
        lagged_close == [lag \in Lags |-> shift(close, lag)]
        rolling_means == [window \in Windows |-> rolling_mean(close, window)]
        rolling_stds == [window \in Windows |-> rolling_std(df, "close", window)]
    IN  [i \in 1..Len(df) |->
            df[i] @@ [open_ma_7 |-> open_ma_7[i], rsi |-> rsi[i],
                      lagged_close |-> [lag \in Lags |-> lagged_close[lag][i]],
                      rolling_mean |-> [window \in Windows |-> rolling_means[window][i]],
                      rolling_std |-> [window \in Windows |-> rolling_stds[window][i]]]]

RowHasNaN(row) ==
    \/ IsNaN(row.open_ma_7)
    \/ IsNaN(row.rsi)
    \/ \E lag \in Lags : IsNaN(row.lagged_close[lag])
    \/ \E window \in Windows : IsNaN(row.rolling_mean[window]) \/ IsNaN(row.rolling_std[window])

dropna_rows(df) ==
    LET Keep(row) == ~RowHasNaN(row)
    IN  SelectSeq(df, Keep)

FetchEnrichRow == FetchRow(MaxEnrichBars, 1, {-1, 0, 1})

TechnicalAnalysisStep ==
    /\ pc = "prepared"
    /\ btc_data' = technical_analysis(btc_data)
    /\ pc' = "analysed"
    /\ UNCHANGED result

DropNa ==
    /\ pc = "analysed"
    /\ btc_data' = dropna_rows(btc_data)
    /\ pc' = "final"
    /\ UNCHANGED result

NextEnrich == FetchEnrichRow \/ PrepareData \/ TechnicalAnalysisStep \/ DropNa

SpecEnrich == InitFetch /\ [][NextEnrich]_vars

(***************************************************************************)
(* Properties of the enrichment step.                                      *)
(***************************************************************************)
\* C5 (as claimed): after enrichment and the dropping of rows with an undefined
\* value, an N-bar input leaves exactly N - 29 rows when N > 29 and none
\* otherwise.
C5_RowsLeftLookback29 ==
    pc = "final" =>
        Len(btc_data) = IF result.rows > 29 THEN result.rows - 29 ELSE 0

\* C5 (amended): after enrichment and the dropping of rows with an undefined
\* value, an N-bar input leaves exactly N - 30 rows when N > 30 and none
\* otherwise: the 30-bar lag is undefined on the first 30 rows.
C5_RowsLeftLookback30 ==
    pc = "final" =>
        /\ Len(btc_data) = IF result.rows > 30 THEN result.rows - 30 ELSE 0
        /\ \A i \in 1..Len(btc_data) :
              /\ ~RowHasNaN(btc_data[i])
              /\ btc_data[i].timestamp = FirstBar.timestamp + timedelta(29 + i)

C5_Witness ==
    /\ pc = "final"
    /\ result.rows = 32
    /\ Len(btc_data) = 2
    /\ btc_data[2].lagged_close[30] # btc_data[2].lagged_close[1]

(***************************************************************************)
(* main.py: the days_since_halving column on tables around the halvings.   *)
(***************************************************************************)
CalendarTimestamps ==
    {halving_dates[i] + k : i \in 1..Len(halving_dates),
                            k \in (-(CalWindow * TicksPerDay))..(CalWindow * TicksPerDay)}

TwoBars(t1, t2) == <<Bar(t1, 10, 11, 9, 10), Bar(t2, 10, 11, 9, 10)>>

InitCalendar ==
    /\ btc_data \in {TwoBars(p[1], p[2]) :
                        p \in {q \in CalendarTimestamps \X CalendarTimestamps : q[1] < q[2]}}
    /\ pc = "fetch"
    /\ result = NoResult

NextCalendar == PrepareData

SpecCalendar == InitCalendar /\ [][NextCalendar]_vars

(***************************************************************************)
(* Properties of the halving calendar.                                     *)
(***************************************************************************)
ReferenceDates == {halving_dates[i] : i \in 1..Len(halving_dates)}

EarlierReferences(d) == {h \in ReferenceDates : h < d}

LatestReference(d) == MaxOf(EarlierReferences(d))

\* n is the count of whole days from reference date h to d.
WholeDaysBetween(h, d, n) ==
    /\ n >= 0
    /\ h + n * TicksPerDay <= d
    /\ d < h + (n + 1) * TicksPerDay

InYear(d, year) == datetime(year, 1, 1) <= d /\ d < datetime(year + 1, 1, 1)

HorizonDays == 365 * 7

HeadlineCloses == CloseSeqs(MaxHeadlineBars) \ {<< >>}

HeadlineBars(closes) ==
    [i \in 1..Len(closes) |->
        Bar(datetime(2024, 1, 1) + timedelta(i - 1), closes[i], closes[i] + i,
            closes[i] - i * i, closes[i])]

InitHeadline ==
    /\ btc_data \in {HeadlineBars(c) : c \in HeadlineCloses}
    /\ pc = "fetch"
    /\ result = NoResult

\* Variant: a bar whose close is exactly 5% under the all-time high is left out.
near_ath_data_strict(df) ==
    LET max_historical_price == SeriesMax(Column(df, "close"))
        threshold == RMul(max_historical_price, <<1, 20>>)
        Near(row) == RLess(RSub(max_historical_price, threshold), Num(row.close))
    IN  SelectSeq(df, Near)

near_ath_data(df) ==
    LET max_historical_price == SeriesMax(Column(df, "close"))
        threshold == RMul(max_historical_price, <<1, 20>>)
        Near(row) == RLeq(RSub(max_historical_price, threshold), Num(row.close))
    IN  SelectSeq(df, Near)

headline_increment(df) ==
    LET ath_average_volatility == Mean(Column(near_ath_data(df), "volatility"))
    IN  RMul(ath_average_volatility, <<1, 10>>)

HeadlineStart ==
    /\ pc = "prepared"
    /\ result' = [op |-> "headline", increment |-> headline_increment(btc_data),
                  estimated_future_prices |-> <<SeriesMax(Column(btc_data, "close"))>>]
    /\ pc' = "headline"
    /\ UNCHANGED btc_data

HeadlineStep ==
    /\ pc = "headline"
    /\ Len(result.estimated_future_prices) < HorizonDays
    /\ LET prices == result.estimated_future_prices
       IN  result' = [result EXCEPT !.estimated_future_prices =
                         Append(prices, RAdd(prices[Len(prices)], result.increment))]
    /\ UNCHANGED <<btc_data, pc>>

HeadlineDone ==
    /\ pc = "headline"
    /\ Len(result.estimated_future_prices) >= HorizonDays
    /\ LET index == date_range(btc_data[Len(btc_data)].timestamp, HorizonDays, "raise")
       IN  result' = [op |-> "estimated_future_prices", index |-> index.labels,
                      values |-> result.estimated_future_prices]
    /\ pc' = "projected"
    /\ UNCHANGED btc_data

NextHeadline == PrepareData \/ HeadlineStart \/ HeadlineStep \/ HeadlineDone

SpecHeadline == InitHeadline /\ [][NextHeadline]_vars

(***************************************************************************)
(* Properties of the headline trajectory.                                  *)
(***************************************************************************)
NearAthBars == {i \in 1..Len(btc_data) : 20 * btc_data[i].close >= 19 * AllTimeHigh}

RECURSIVE RangeSum(_)
RangeSum(bars) ==
    IF bars = {} THEN 0
    ELSE LET i == MaxOf(bars)
         IN  (btc_data[i].high - btc_data[i].low) + RangeSum(bars \ {i})

ClaimedIncrement == Norm(RangeSum(NearAthBars), 10 * Cardinality(NearAthBars))

====
